---- MODULE Spec2Model ----
(***************************************************************************)
(* Dispatch and delivery-log reconciliation of the communication gateway:  *)
(* EmailService.sendEmail / sendBulkEmails / processEmailBatch /           *)
(* retryFailedEmails over EmailRepository, and                             *)
(* PushService.sendBulkPushNotification over PushRepository / PushConfig.  *)
(* SmsService and SmsRepository repeat the email code line for line with   *)
(* phone/message in place of to/subject/body, so the email definitions     *)
(* stand for both channels.                                                *)
(*                                                                         *)
(* Every `await` of the JavaScript code is a suspension point: one action  *)
(* of the model runs a flow from one await to the next.  The vendor call   *)
(* and the log-store writes are the awaited calls; a store write either    *)
(* commits or throws.                                                      *)
(*                                                                         *)
(* The specifications share the variables:                                 *)
(*   Spec      repeated single sends and two overlapping retry sweeps      *)
(*   SpecBulk  one bulk email send                                         *)
(*   SpecMix   one bulk email send beside one retry sweep                  *)
(*   SpecPush  one bulk push send                                          *)
(*   SpecWindow   single sends and one retry sweep while time passes       *)
(*   SpecDelete   single sends and one retry sweep while rows are deleted  *)
(*   SpecCleanup  single sends and cleanupOldEmailLogs while time passes   *)
(*   SpecRegistry the adapter registries: EmailConfig.getTransporter,      *)
(*                SmsConfig.getClient, PushConfig.getClient, called by the *)
(*                send functions of the three config objects               *)
(*   SpecNotify   one Notifier.sendNotification call                       *)
(*   SpecComment  one CommentService.createComment or createReply call     *)
(*   SpecTenant   sends and log requests of users of two tenants           *)
(*   SpecPushOne  repeated PushService.sendPushNotification calls          *)
(*   SpecLive     Spec with a store that takes every write, and every     *)
(*                awaited call settling in the end                         *)
(*   SpecRate     requests of two client addresses going through           *)
(*                authRateLimit while time passes                          *)
(* The flows that take no part in a specification stay idle in it.         *)
(***************************************************************************)
EXTENDS Integers, Sequences, FiniteSets, TLC

\* ------------------------------------------------------------------ bounds
MaxItems == 3        \* most items of one sendBulkEmails call
MaxBatchSize == 2    \* largest batchSize tried
MaxLimit == 2        \* largest `limit` of a retry sweep
MaxStoreFaults == 1  \* most log-store writes that throw in one behaviour
MaxUserIds == 3      \* most userIds of one sendBulkPushNotification call
MaxSends == 2        \* most sendEmail calls made one after another
MaxMixItems == 2     \* most items of a bulk send that runs beside a sweep
MaxTicks == 3        \* most advances of the clock in one behaviour
MaxDaysOld == 1      \* largest `daysOld` of a cleanupOldEmailLogs call
MaxCleanups == 1     \* most cleanupOldEmailLogs calls in one behaviour
MaxGets == 3         \* most calls that take an adapter from a registry
MaxChannels == 3     \* most entries of options.channels
MaxWords == 2        \* most words of a comment's content
MaxRequests == 1     \* most requests on the email log in one behaviour
MaxPushSends == 2    \* most sendPushNotification calls made one after another
MaxAuthRequests == 7 \* most requests that reach authRateLimit
MaxAuthTicks == 4    \* most advances of Date.now() between those requests
AuthTickMs == 300000 \* milliseconds of one such advance

\* --------------------------------------------------------------- constants
NoProvider == "undefined"       \* the caller left `provider` out
NoError == "null"               \* errorMessage = null
VendorError == "vendor error"   \* message of the error the adapter throws
StoreError == "store error"     \* message of the error a store write throws
NotFoundError == "record not found"  \* prisma: update/delete of no row
NoId == 0

\* time is counted in hours; the clock advances TickHours at a time
TickHours == 12
RetryWindowHours == 24          \* 24 * 60 * 60 * 1000 ms
DayHours == 24

Sweeps == {"A", "B"}            \* two retryFailedEmails requests

VARIABLES
  emailLogs,     \* the EmailLog table: row id = index
  storeFaults,   \* number of store writes that have thrown so far
  one,           \* the EmailService.sendEmail call in progress
  sends,         \* number of sendEmail calls made so far (POST /emails/send)
  retry,         \* the retryFailedEmails calls, one per element of Sweeps
  bulk,          \* one EmailService.sendBulkEmails call
  batches,       \* the processEmailBatch calls that bulk has started
  push,          \* one PushService.sendBulkPushNotification call
  pushNotifications,  \* the PushNotification table
  clock,         \* Date.now() / CURRENT_TIMESTAMP, in hours
  deleted,       \* ids of the rows deleted from EmailLog (SERIAL ids are
                 \* not given out again)
  cleanup,       \* the cleanupOldEmailLogs calls made: how many, and the
                 \* daysOld and result.count of the last one
  registry,      \* per channel the Map of the config object (transporters,
                 \* clients, apps): provider name -> the instance cached
  made,          \* the adapter instances constructed, in order: instance i
                 \* is made[i]
  history,       \* the calls made to the send functions of the config
                 \* objects, each with what its getClient call came to
  env,           \* the channels whose providers have their credentials in
                 \* process.env
  notify,        \* one Notifier.sendNotification call
  post,          \* one CommentService.createComment / createReply call
  comments,      \* the Comment table
  replies,       \* the Reply table
  mentionRows,   \* the Mention table
  notified,      \* the notifications handed to Notifier.sendNotification by
                 \* sendCommentNotification and sendReplyNotification
  request,       \* the last request on the email log that EmailController
                 \* handled: the caller's tenant and the rows it reached
  pushOne,       \* the PushService.sendPushNotification call in progress
  pushSends,     \* how many sendPushNotification calls have been made
  pushCalls,     \* the pushConfig.sendNotification calls made for them
  authAttempts,  \* global.authAttempts: client address -> the times stored
  nowMs,         \* Date.now(), in milliseconds
  passedOn,      \* per client address the times at which authRateLimit
                 \* called next()
  answer         \* what authRateLimit did with the last request

flowVars == <<emailLogs, storeFaults, one, sends, retry, bulk, batches>>

pushVars == <<push, pushNotifications>>

timeVars == <<clock, deleted, cleanup>>

registryVars == <<registry, made, history, env>>

notifyVars == <<notify>>

commentVars == <<post, comments, replies, mentionRows, notified>>

requestVars == <<request>>

pushOneVars == <<pushOne, pushSends, pushCalls>>

rateVars == <<authAttempts, nowMs, passedOn, answer>>

otherVars == <<registryVars, notifyVars, commentVars, requestVars,
               pushOneVars, rateVars>>

vars == <<flowVars, pushVars, timeVars, otherVars>>

\* ------------------------------------------------------------ EmailRepository

\* (variant: the log is written as already sent)
createEmailLogAsSent(logs, emailData) ==
  Append(logs, [tenantId |-> emailData.tenantId,
                to |-> emailData.to,
                status |-> "sent",
                provider |-> emailData.provider,
                errorMessage |-> NoError,
                createdAt |-> clock])

\* prisma.emailLog.create: status defaults to 'pending', provider is stored
\* as the caller passed it, errorMessage is not given, createdAt takes its
\* default CURRENT_TIMESTAMP
createEmailLog(logs, emailData) ==
  Append(logs, [tenantId |-> emailData.tenantId,
                to |-> emailData.to,
                status |-> emailData.status,
                provider |-> emailData.provider,
                errorMessage |-> NoError,
                createdAt |-> clock])

\* (variant: the error message is not passed on to the row)
updateEmailLogStatusNoMessage(logs, id, status, errorMessage) ==
  [logs EXCEPT ![id].status = status, ![id].errorMessage = NoError]

\* (variant: only a successful send is written to the row)
updateEmailLogStatusSentOnly(logs, id, status, errorMessage) ==
  IF status = "sent"
  THEN [logs EXCEPT ![id].status = status, ![id].errorMessage = errorMessage]
  ELSE logs

\* prisma.emailLog.update({where: {id}, data: {status, errorMessage}})
updateEmailLogStatus(logs, id, status, errorMessage) ==
  [logs EXCEPT ![id].status = status, ![id].errorMessage = errorMessage]

\* the rows the table holds
Rows(logs) == {i \in 1..Len(logs) : i \notin deleted}

\* orderBy: {createdAt: 'asc'}: the ids of S, oldest row first (rows with
\* one createdAt in the order of their SERIAL ids)
RECURSIVE OldestFirst(_, _)
OldestFirst(logs, S) ==
  IF S = {} THEN <<>>
  ELSE LET m == CHOOSE x \in S :
                  \A y \in S : \/ logs[x].createdAt < logs[y].createdAt
                               \/ /\ logs[x].createdAt = logs[y].createdAt
                                  /\ x <= y
       IN <<m>> \o OldestFirst(logs, S \ {m})

Take(s, n) == SubSeq(s, 1, IF Len(s) < n THEN Len(s) ELSE n)

\* (variant: every failed row is selected, whatever its age)
getFailedEmailLogsForRetryAnyAge(logs, limit) ==
  Take(OldestFirst(logs, {i \in Rows(logs) : logs[i].status = "failed"}),
       limit)

\* findMany({where: {status: 'failed', createdAt >= now - 24h},
\*           orderBy: {createdAt: 'asc'}, take: limit})
getFailedEmailLogsForRetry(logs, limit) ==
  Take(OldestFirst(logs,
                   {i \in Rows(logs) :
                      /\ logs[i].status = "failed"
                      /\ logs[i].createdAt >= clock - RetryWindowHours}),
       limit)

\* getEmailLogs({tenantId}): the rows of one tenant
getEmailLogs(logs, tenantId) ==
  {i \in Rows(logs) : logs[i].tenantId = tenantId}

\* findUnique({where: {id}}): the row of that id, if the table holds it
getEmailLogById(logs, id) == {i \in Rows(logs) : i = id}

\* prisma.emailLog.delete({where: {id}})
deleteEmailLog(gone, id) == gone \cup {id}

\* (variant: the cleanup takes rows of every status)
cleanupOldEmailLogsAnyStatus(logs, daysOld) ==
  {i \in Rows(logs) : logs[i].createdAt < clock - daysOld * DayHours}

\* deleteMany({where: {createdAt < now - daysOld days,
\*                     status in ['sent', 'failed']}}): the rows it deletes
cleanupOldEmailLogs(logs, daysOld) ==
  {i \in Rows(logs) :
     /\ logs[i].createdAt < clock - daysOld * DayHours
     /\ logs[i].status \in {"sent", "failed"}}

\* --------------------------------------------------------------- sendEmail
\* One sendEmail call is a record
\*   pc        "start"     createEmailLog awaited
\*             "inflight"  emailConfig.sendEmail awaited (vendor call issued)
\*             "vendorOk"  vendor returned, updateEmailLogStatus(sent) awaited
\*             "vendorErr" in the catch block, updateEmailLogStatus(failed)
\*                         awaited with error.message = err
\*             "returned"  resolved with {success: true, emailLogId, ...}
\*             "raised"    rejected with the error whose message is err
\*   id        emailLog.id (NoId before the log exists)
\*   call      what emailConfig.sendEmail was called with, and the adapter
\*             it took from the registry

\* EmailConfig: process.env.EMAIL_DEFAULT_PROVIDER || 'smtp'
EmailDefaultProvider == "smtp"

\* getTransporter: provider || this.defaultProvider
ProviderName(provider, defaultProvider) ==
  IF provider = NoProvider THEN defaultProvider ELSE provider

\* (variant: the provider is not passed on to emailConfig.sendEmail)
VendorCallNoProvider(to, provider) ==
  [to |-> to, provider |-> NoProvider,
   adapter |-> ProviderName(NoProvider, EmailDefaultProvider)]

\* emailConfig.sendEmail({to, provider, ...}) sends through
\* getTransporter(provider)
VendorCall(to, provider) ==
  [to |-> to, provider |-> provider,
   adapter |-> ProviderName(provider, EmailDefaultProvider)]

NoCall == [to |-> 0, provider |-> NoProvider, adapter |-> NoProvider]

\* prisma.emailLog.update throws when the table holds no row of that id
Missing(id) == id \in deleted

NewCall(tenantId, to, provider) ==
  [pc |-> "start", tenantId |-> tenantId, to |-> to, provider |-> provider,
   id |-> NoId, err |-> NoError, call |-> NoCall]

Outcome(t, logs, faults) == [task |-> t, logs |-> logs, faults |-> faults]

\* the steps one sendEmail call can take from task t: a set of outcomes
sendEmail(t, logs, faults) ==
  IF t.pc = "start" THEN
    \* lines 21-28 commit, then line 32 issues the vendor call
    { Outcome([t EXCEPT !.pc = "inflight", !.id = Len(logs) + 1,
                        !.call = VendorCall(t.to, t.provider)],
              createEmailLog(logs, [tenantId |-> t.tenantId,
                                    to |-> t.to,
                                    status |-> "pending",
                                    provider |-> t.provider]),
              faults) }
    \cup
    \* createEmailLog throws: outer catch, rethrow (lines 77-80)
    (IF faults < MaxStoreFaults
     THEN { Outcome([t EXCEPT !.pc = "raised", !.err = StoreError],
                    logs, faults + 1) }
     ELSE {})
  ELSE IF t.pc = "inflight" THEN
    \* the vendor call returns (line 32 resumes, line 42 issues the update)
    \* or throws (line 61, line 63 issues the update)
    { Outcome([t EXCEPT !.pc = "vendorOk"], logs, faults),
      Outcome([t EXCEPT !.pc = "vendorErr", !.err = VendorError],
              logs, faults) }
  ELSE IF t.pc = "vendorOk" THEN
    IF Missing(t.id)
    THEN { Outcome([t EXCEPT !.pc = "vendorErr", !.err = NotFoundError],
                   logs, faults) }
    ELSE
    \* lines 42-46 commit, lines 55-60 return
    { Outcome([t EXCEPT !.pc = "returned"],
              updateEmailLogStatus(logs, t.id, "sent", NoError), faults) }
    \cup
    \* the update throws inside the inner try: its catch (line 61) runs
    (IF faults < MaxStoreFaults
     THEN { Outcome([t EXCEPT !.pc = "vendorErr", !.err = StoreError],
                    logs, faults + 1) }
     ELSE {})
  ELSE IF t.pc = "vendorErr" THEN
    IF Missing(t.id)
    THEN { Outcome([t EXCEPT !.pc = "raised", !.err = NotFoundError],
                   logs, faults) }
    ELSE
    \* lines 63-67 commit, line 75 rethrows the caught error
    { Outcome([t EXCEPT !.pc = "raised"],
              updateEmailLogStatus(logs, t.id, "failed", t.err), faults) }
    \cup
    \* the update throws inside the catch block: that error leaves instead
    (IF faults < MaxStoreFaults
     THEN { Outcome([t EXCEPT !.pc = "raised", !.err = StoreError],
                    logs, faults + 1) }
     ELSE {})
  ELSE {}

Finished(t) == t.pc \in {"returned", "raised"}

\* ------------------------------------------------------- retryFailedEmails
\* One sweep is a record
\*   pc       "select"    getFailedEmailLogsForRetry awaited
\*            "reset"     updateEmailLogStatus(sel[k], 'pending') awaited
\*            "inflight"  emailConfig.sendEmail awaited for sel[k]
\*            "vendorOk"  updateEmailLogStatus(sel[k], 'sent') awaited
\*            "vendorErr" in the catch block, updateEmailLogStatus(sel[k],
\*                        'failed', err) awaited
\*            "returned" / "raised"
\*   sel      failedEmails, the ids selected;  k  the loop position
\*   at       the time of the selection
\*   results  the result list
\*   call     what emailConfig.sendEmail was called with for sel[k]; to and
\*            provider are those of the selected row, which no write changes
NewSweep(limit) ==
  [pc |-> "select", limit |-> limit, sel |-> <<>>, k |-> 1, at |-> 0,
   results |-> <<>>, err |-> NoError, call |-> NoCall]

\* the loop moves on to the next selected row, or the sweep returns
NextRow(r, result) ==
  [r EXCEPT !.results = Append(r.results, result),
            !.k = r.k + 1,
            !.err = NoError,
            !.pc = IF r.k < Len(r.sel) THEN "reset" ELSE "returned"]

\* (variant: the retry logs the attempt as a new pending row)
ResetForRetryNewRow(logs, id) ==
  createEmailLog(logs, [tenantId |-> logs[id].tenantId, to |-> logs[id].to,
                        status |-> "pending",
                        provider |-> logs[id].provider])

\* (variant: the reset writes the status and leaves the message)
ResetForRetryKeepMessage(logs, id) == [logs EXCEPT ![id].status = "pending"]

\* line 290: updateEmailLogStatus(emailLog.id, 'pending'), errorMessage
\* takes its default null
ResetForRetry(logs, id) == updateEmailLogStatus(logs, id, "pending", NoError)

retryFailedEmails(r, logs, faults) ==
  IF r.pc = "select" THEN
    LET sel == getFailedEmailLogsForRetry(logs, r.limit)
    IN { Outcome([r EXCEPT !.sel = sel, !.at = clock,
                           !.pc = IF sel = <<>> THEN "returned" ELSE "reset"],
                 logs, faults) }
  ELSE IF r.pc = "reset" THEN
    IF Missing(r.sel[r.k])
    THEN { Outcome([r EXCEPT !.pc = "vendorErr", !.err = NotFoundError],
                   logs, faults) }
    ELSE
    \* line 290 commits, line 293 issues the vendor call
    { Outcome([r EXCEPT !.pc = "inflight",
                        !.call = VendorCall(logs[r.sel[r.k]].to,
                                            logs[r.sel[r.k]].provider)],
              ResetForRetry(logs, r.sel[r.k]), faults) }
    \cup
    (IF faults < MaxStoreFaults
     THEN { Outcome([r EXCEPT !.pc = "vendorErr", !.err = StoreError],
                    logs, faults + 1) }
     ELSE {})
  ELSE IF r.pc = "inflight" THEN
    { Outcome([r EXCEPT !.pc = "vendorOk"], logs, faults),
      Outcome([r EXCEPT !.pc = "vendorErr", !.err = VendorError],
              logs, faults) }
  ELSE IF r.pc = "vendorOk" THEN
    IF Missing(r.sel[r.k])
    THEN { Outcome([r EXCEPT !.pc = "vendorErr", !.err = NotFoundError],
                   logs, faults) }
    ELSE
    \* lines 301-311
    { Outcome(NextRow(r, [emailLogId |-> r.sel[r.k], success |-> TRUE,
                          error |-> NoError]),
              updateEmailLogStatus(logs, r.sel[r.k], "sent", NoError),
              faults) }
    \cup
    (IF faults < MaxStoreFaults
     THEN { Outcome([r EXCEPT !.pc = "vendorErr", !.err = StoreError],
                    logs, faults + 1) }
     ELSE {})
  ELSE IF r.pc = "vendorErr" THEN
    IF Missing(r.sel[r.k])
    \* the update of the catch block throws: the loop is left
    THEN { Outcome([r EXCEPT !.pc = "raised", !.err = NotFoundError],
                   logs, faults) }
    ELSE
    \* lines 314-324
    { Outcome(NextRow(r, [emailLogId |-> r.sel[r.k], success |-> FALSE,
                          error |-> r.err]),
              updateEmailLogStatus(logs, r.sel[r.k], "failed", r.err),
              faults) }
    \cup
    \* the update throws inside the catch block: the loop is left, the
    \* outer catch rethrows (lines 335-338)
    (IF faults < MaxStoreFaults
     THEN { Outcome([r EXCEPT !.pc = "raised", !.err = StoreError],
                    logs, faults + 1) }
     ELSE {})
  ELSE {}

\* ---------------------------------------------------------- sendBulkEmails
\* The call is a record
\*   pc         "loop"     entered, no batch started yet
\*              "delay"    the setTimeout of line 102 awaited
\*              "await"    the loop is over, Promise.all of line 106 awaited
\*              "returned"
\*   n          emails.length; the items are 1..n, item i has to = i
\*   i          the loop variable of line 94
\* batches is batchPromises: one processEmailBatch call per entry,
\*   items    the slice it was given;  k  the position of its for loop
\*   task     the sendEmail call it awaits;  results  its result list
Min(a, b) == IF a < b THEN a ELSE b

\* emails.slice(i, i + batchSize), the items being 1..n
Slice(i, batchSize, n) == [j \in 1..(Min(i + batchSize, n) - i) |-> i + j]

BulkTenant == "T2"

NewBatch(items, provider) ==
  [items |-> items, k |-> 1,
   task |-> NewCall(BulkTenant, items[1], provider),
   results |-> <<>>]

BatchDone(b) == b.k > Len(b.items)

\* lines 142 and 144-148: the entry processEmailBatch pushes for an item
ItemResult(item, t) ==
  IF t.pc = "returned"
  THEN [to |-> item, success |-> TRUE, emailLogId |-> t.id, error |-> NoError]
  ELSE [to |-> item, success |-> FALSE, emailLogId |-> NoId, error |-> t.err]

\* (variant: no per-item catch, the first failed item ends the batch)
processEmailBatchAbort(b, t) ==
  IF t.pc = "raised"
  THEN [b EXCEPT !.k = Len(b.items) + 1, !.task = t]
  ELSE IF t.pc = "returned"
  THEN [b EXCEPT !.results = Append(b.results, ItemResult(b.items[b.k], t)),
                 !.k = b.k + 1,
                 !.task = IF b.k < Len(b.items)
                          THEN NewCall(BulkTenant, b.items[b.k + 1],
                                       t.provider)
                          ELSE t]
  ELSE [b EXCEPT !.task = t]

\* processEmailBatch after its awaited sendEmail call took a step to t
processEmailBatch(b, t) ==
  IF Finished(t)
  THEN [b EXCEPT !.results = Append(b.results, ItemResult(b.items[b.k], t)),
                 !.k = b.k + 1,
                 !.task = IF b.k < Len(b.items)
                          THEN NewCall(BulkTenant, b.items[b.k + 1],
                                       t.provider)
                          ELSE t]
  ELSE [b EXCEPT !.task = t]

\* (variant: the batches' results are joined last batch first)
RECURSIVE FlatReversed(_)
FlatReversed(bs) ==
  IF bs = <<>> THEN <<>> ELSE FlatReversed(Tail(bs)) \o Head(bs).results

\* batchResults.flat() of line 107
RECURSIVE Flat(_)
Flat(bs) == IF bs = <<>> THEN <<>> ELSE Head(bs).results \o Flat(Tail(bs))

CountSuccess(results, flag) ==
  Cardinality({j \in 1..Len(results) : results[j].success = flag})

NoSummary == [total |-> 0, successful |-> 0, failed |-> 0]

\* ------------------------------------------- sendBulkPushNotification
\* The call is a record
\*   pc        "create"    createPushNotification awaited for userIds[k]
\*             "inflight"  pushConfig.sendNotification awaited
\*             "returned" / "raised"
\*   n         userIds.length; the userIds are 1..n
\*   notifications  the records created;  results  the result list
\*   tokens    the `tokens` of the vendor call (userIds)
\*   delivered the tokens the vendor's response reports success for

\* prisma.pushNotification.create
createPushNotification(table, data) ==
  Append(table, [tenantId |-> data.tenantId, userId |-> data.userId,
                 isRead |-> FALSE])

\* lines 110-117: one success entry per created record
RECURSIVE SuccessEntries(_, _)
SuccessEntries(notifications, provider) ==
  IF notifications = <<>> THEN <<>>
  ELSE <<[userId |-> Head(notifications).userId,
          notificationId |-> Head(notifications).id,
          success |-> TRUE, provider |-> provider]>>
       \o SuccessEntries(Tail(notifications), provider)

\* `provider || this.defaultProvider` of PushConfig.sendNotification
PushDefaultProvider == "firebase"
ResolvePushProvider(provider) ==
  IF provider = NoProvider THEN PushDefaultProvider ELSE provider

\* the steps of the call from p
sendBulkPushNotification(p, table, faults) ==
  IF p.pc = "create" THEN
    \* lines 79-95; after the last userId line 99 issues the vendor call
    LET next == IF p.k < p.n THEN "create" ELSE "inflight"
        tokens == IF p.k < p.n THEN {} ELSE 1..p.n
    IN { Outcome([p EXCEPT !.pc = next, !.k = p.k + 1, !.tokens = tokens,
                           !.notifications =
                              Append(p.notifications,
                                     [id |-> Len(table) + 1,
                                      userId |-> p.k])],
                 createPushNotification(table, [tenantId |-> p.tenantId,
                                                userId |-> p.k]),
                 faults) }
       \cup
       (IF faults < MaxStoreFaults
        THEN { Outcome([p EXCEPT !.pc = next, !.k = p.k + 1,
                                 !.tokens = tokens,
                                 !.results =
                                    Append(p.results,
                                           [userId |-> p.k,
                                            notificationId |-> NoId,
                                            success |-> FALSE,
                                            provider |-> NoProvider])],
                       table, faults + 1) }
        ELSE {})
  ELSE IF p.pc = "inflight" THEN
    \* the vendor call returns: lines 110-132
    LET results == p.results
                   \o SuccessEntries(p.notifications,
                                     ResolvePushProvider(p.provider))
    \* the vendor's response (push.js 129: sendEachForMulticast resolves
    \* with a response per token) is not read by lines 110-117
    IN { Outcome([p EXCEPT !.pc = "returned",
                           !.delivered = delivered,
                           !.results = results,
                           !.summary =
                              [total |-> p.n,
                               successful |-> CountSuccess(results, TRUE),
                               failed |-> CountSuccess(results, FALSE)]],
                 table, faults) : delivered \in SUBSET p.tokens }
       \cup {
    \* the vendor call throws: lines 133-136, then 137-140
         Outcome([p EXCEPT !.pc = "raised", !.err = VendorError],
                 table, faults) }
  ELSE {}

\* ------------------------------------------------- sendPushNotification
\* The call is a record
\*   pc      "create"    createPushNotification awaited
\*           "inflight"  pushConfig.sendNotification awaited
\*           "returned" / "raised"
\*   id      notification.id;  vendor  how the vendor call ended
NewPushCall(tenantId, userId, provider) ==
  [pc |-> "create", tenantId |-> tenantId, userId |-> userId,
   provider |-> provider, id |-> NoId, vendor |-> "none", err |-> NoError]

\* (variant: the catch block writes to the record of the failed send)
PushVendorFailedMarks(p, table, faults) ==
  Outcome([p EXCEPT !.pc = "raised", !.vendor = "failed",
                    !.err = VendorError],
          [table EXCEPT ![p.id].isRead = TRUE], faults)

\* pushService.js 49-59: the vendor call threw; the error is logged and
\* thrown again, the record is not written to
PushVendorFailed(p, table, faults) ==
  Outcome([p EXCEPT !.pc = "raised", !.vendor = "failed",
                    !.err = VendorError],
          table, faults)

\* pushService.js 14-65, from one await to the next
sendPushNotification(p, table, faults) ==
  IF p.pc = "create" THEN
    \* lines 19-25 commit, line 29 issues the vendor call
    { Outcome([p EXCEPT !.pc = "inflight", !.id = Len(table) + 1],
              createPushNotification(table, [tenantId |-> p.tenantId,
                                             userId |-> p.userId]),
              faults) }
    \cup
    \* createPushNotification throws: outer catch, rethrow (lines 60-63)
    (IF faults < MaxStoreFaults
     THEN { Outcome([p EXCEPT !.pc = "raised", !.err = StoreError],
                    table, faults + 1) }
     ELSE {})
  ELSE IF p.pc = "inflight" THEN
    \* lines 38-48
    { Outcome([p EXCEPT !.pc = "returned", !.vendor = "ok"], table, faults),
      PushVendorFailed(p, table, faults) }
  ELSE {}

\* ------------------------------------------------------- adapter registry
\* EmailConfig, SmsConfig and PushConfig each keep a Map from provider name
\* to the client built for it; getTransporter / getClient fill it lazily.
Channels == {"email", "sms", "push"}

\* the cases of the switch in createTransporter / createClient
SupportedProviders(channel) ==
  CASE channel = "email" -> {"smtp", "gmail", "sendgrid", "mailgun"}
    [] channel = "sms" -> {"twilio", "aws-sns", "messagebird"}
    [] channel = "push" -> {"firebase", "apns", "fcm"}

\* a name no switch has a case for
OtherProvider == "other"

\* this.defaultProvider of the three constructors
SmsDefaultProvider == "twilio"
DefaultProvider(channel) ==
  CASE channel = "email" -> EmailDefaultProvider
    [] channel = "sms" -> SmsDefaultProvider
    [] channel = "push" -> PushDefaultProvider

ConfigError == "configuration is missing"
UnsupportedError == "unsupported provider"
NoInstance == 0

\* the constructions that look at the credentials: initializeFirebase
\* throws without serviceAccount.private_key, and the twilio constructor
\* rejects a missing accountSid / authToken.  nodemailer.createTransport
\* takes whatever auth it is given (transporter.verify only logs), and the
\* aws-sns, messagebird, apns and fcm clients are object literals.
ChecksCredentials(channel, name) ==
  \/ channel = "push" /\ name = "firebase"
  \/ channel = "sms" /\ name = "twilio"

\* createTransporter / createClient: NoError when the client is built, or
\* the message of the error thrown
createClient(channel, name, credentials) ==
  IF name \notin SupportedProviders(channel) THEN UnsupportedError
  ELSE IF ChecksCredentials(channel, name) /\ ~credentials THEN ConfigError
  ELSE NoError

Got(reg, instances, instance, error) ==
  [registry |-> reg, made |-> instances, instance |-> instance,
   error |-> error]

\* (variant: a client is built on every call)
getClientNoCache(reg, instances, channel, provider, credentials) ==
  LET name == ProviderName(provider, DefaultProvider(channel))
      error == createClient(channel, name, credentials)
  IN IF error = NoError
     THEN Got([reg EXCEPT ![channel][name] = Len(instances) + 1],
              Append(instances, [channel |-> channel, name |-> name]),
              Len(instances) + 1, NoError)
     ELSE Got(reg, instances, NoInstance, error)

\* getTransporter / getClient: the Map before, the instances built so far,
\* and the call's arguments give the Map after, the instances after, and
\* the instance returned or the error thrown
getClient(reg, instances, channel, provider, credentials) ==
  LET name == ProviderName(provider, DefaultProvider(channel))
      error == createClient(channel, name, credentials)
  IN IF reg[channel][name] # NoInstance
     THEN Got(reg, instances, reg[channel][name], NoError)
     ELSE IF error = NoError
     THEN Got([reg EXCEPT ![channel][name] = Len(instances) + 1],
              Append(instances, [channel |-> channel, name |-> name]),
              Len(instances) + 1, NoError)
     ELSE Got(reg, instances, NoInstance, error)

\* the provider arguments tried on a channel
ProviderArgs(channel) ==
  {NoProvider, OtherProvider} \cup SupportedProviders(channel)

\* the keys a Map can come to hold
ProviderNames ==
  {OtherProvider} \cup UNION {SupportedProviders(c) : c \in Channels}

EmptyRegistry == [c \in Channels |-> [n \in ProviderNames |-> NoInstance]]

\* ------------------------------------------------ Notifier.sendNotification
\* The call is a record
\*   pc        "called"    entered, nothing run yet
\*             "inflight"  the send of channels[k] awaited (line 27, 30, 33)
\*             "returned" / "raised"
\*   given     options.channels is there;  channels  its entries, or the
\*             default when it is not
\*   attempts  the channels whose send has been called, in order
\*   calls     the calls those sends made, in order
\*   results   the result list
OtherChannel == "webhook"     \* a name the switch has no case for

ChannelArgs == Channels \cup {OtherChannel}

\* line 19: options.channels || ['email', 'sms', 'push']
DefaultChannels == <<"email", "sms", "push">>

NewNotification(given, channels) ==
  [pc |-> "called", given |-> given,
   channels |-> IF given THEN channels ELSE DefaultChannels,
   k |-> 0, attempts |-> <<>>, calls |-> <<>>, results |-> <<>>,
   success |-> FALSE, summary |-> NoSummary]

\* The services that write a log row before they call the vendor
\* (emailService.js 16-81, SmsService likewise)
DispatchServices == {"emailService", "smsService"}

\* lines 75-139: the object a channel's send hands the message to.
\* sendEmailNotification goes to the mailer, whose sendHtmlEmail (387-416)
\* calls emailConfig.sendEmail; sendSmsNotification calls smsConfig.sendSms;
\* sendPushNotification calls pushConfig.  None of them creates a log row.
ChannelCall(channel) ==
  [channel |-> channel,
   through |-> IF channel = "email" THEN "mailer"
               ELSE IF channel = "sms" THEN "smsConfig" ELSE "pushConfig",
   logs |-> <<>>]

\* lines 25-38: from position k on, the first channel the switch has a case
\* for; the others are passed over by `continue`
RECURSIVE NextChannel(_, _)
NextChannel(channels, k) ==
  IF k > Len(channels) THEN k
  ELSE IF channels[k] \in Channels THEN k
  ELSE NextChannel(channels, k + 1)

\* the loop goes on from position k with these results: the next send is
\* called and awaited, or the loop is over and lines 51-65 return
Proceed(n, results, k) ==
  LET j == NextChannel(n.channels, k)
      successful == CountSuccess(results, TRUE)
  IN IF j <= Len(n.channels)
     THEN [n EXCEPT !.pc = "inflight", !.k = j, !.results = results,
                    !.attempts = Append(n.attempts, n.channels[j]),
                    !.calls = Append(n.calls, ChannelCall(n.channels[j]))]
     ELSE [n EXCEPT !.pc = "returned", !.k = j, !.results = results,
                    !.success = successful > 0,
                    !.summary = [total |-> Len(n.channels),
                                 successful |-> successful,
                                 failed |-> CountSuccess(results, FALSE)]]

\* line 40: the send resolved with {success: true, ...}
ChannelSent(n) ==
  Proceed(n, Append(n.results, [channel |-> n.channels[n.k],
                                success |-> TRUE, error |-> NoError]),
          n.k + 1)

\* (variant: no per-channel catch, the error leaves the loop)
ChannelFailedRaise(n, error) == [n EXCEPT !.pc = "raised"]

\* lines 41-48: the send rejected with this error
ChannelFailed(n, error) ==
  Proceed(n, Append(n.results, [channel |-> n.channels[n.k],
                                success |-> FALSE, error |-> error]),
          n.k + 1)

\* the steps of the call from n
sendNotification(n) ==
  IF n.pc = "called" THEN { Proceed(n, <<>>, 1) }
  ELSE IF n.pc = "inflight"
  THEN { ChannelSent(n), ChannelFailed(n, VendorError) }
  ELSE {}

\* ------------------------------------------------------------ CommentService
\* JavaScript objects are records; a key an object does not have reads as
\* Undefined, and a destructuring default stands in for it.
Undefined == [undefined |-> TRUE]

IsUndefined(v) == "undefined" \in DOMAIN v

Field(obj, key, default) == IF key \in DOMAIN obj THEN obj[key] ELSE default

TypeError == "Cannot read properties of undefined"
ParentNotFound == "Parent comment not found"

Users == {"ann", "bob"}

\* the User row `include: { user: true }` brings along
UserRow(u) == [id |-> u, name |-> u, email |-> u]

\* A content is a sequence of words; a word is plain text or "@" followed
\* by \w characters, none for a bare "@".
Words == {[at |-> FALSE, word |-> "hi"], [at |-> TRUE, word |-> "ann"],
          [at |-> TRUE, word |-> "bob"], [at |-> TRUE, word |-> ""]}

\* commentService.js 317-332: one entry per match of /@(\w+)/g, in order
RECURSIVE extractMentions(_)
extractMentions(content) ==
  IF content = <<>> THEN <<>>
  ELSE LET w == Head(content)
       IN (IF w.at /\ w.word # ""
           THEN <<[username |-> w.word, id |-> w.word]>> ELSE <<>>)
          \o extractMentions(Tail(content))

\* notifier.js 187-229.  The value is what the call does before its first
\* await: the notifications it hands to sendBulkNotifications, whose first
\* batch (ten at most, more than a content has words) is handed to
\* sendNotification at once.
sendCommentNotification(comment) ==
  LET commenterName == Field(comment, "commenterName", Undefined)
      mentionedUsers == Field(comment, "mentionedUsers", <<>>)
  IN [notifications |->
        [i \in 1..Len(mentionedUsers) |->
           [type |-> "mention", user |-> mentionedUsers[i],
            by |-> commenterName]],
      err |-> NoError]

\* notifier.js 234-265: reading originalCommenter.email of no object throws
\* before sendNotification is called
sendReplyNotification(reply) ==
  LET replierName == Field(reply, "replierName", Undefined)
      originalCommenter == Field(reply, "originalCommenter", Undefined)
  IN IF IsUndefined(originalCommenter)
     THEN [notifications |-> <<>>, err |-> TypeError]
     ELSE [notifications |-> <<[type |-> "reply", user |-> originalCommenter,
                               by |-> replierName]>>,
           err |-> NoError]

\* commentService.js 31-38 and 167-174: the argument of
\* sendCommentNotification
MentionArgument(row, content, mentions) ==
  [comment |-> [id |-> row.id, commenterName |-> row.user.name,
                commentContent |-> content, mentionedUsers |-> mentions]]

\* commentService.js 183-190: the argument of sendReplyNotification
ReplyArgument(row, content, parentComment) ==
  [reply |-> [id |-> row.id, replierName |-> row.user.name,
              replyContent |-> content,
              originalCommenter |-> parentComment.user]]

\* The call is a record
\*   pc    "called"    entered, nothing run yet
\*         "lookup"    getCommentById awaited (createReply)
\*         "create"    repository createComment / createReply awaited
\*         "mention"   createMention awaited for mentions[k] (createReply)
\*         "mentions"  sendCommentNotification awaited
\*         "replyNote" sendReplyNotification awaited (createReply)
\*         "returned" / "raised"
NoRow == [id |-> NoId, user |-> UserRow("ann")]

NewPost(kind, userId, commentId, content) ==
  [pc |-> "called", kind |-> kind, userId |-> userId,
   commentId |-> commentId, content |-> content, row |-> NoRow,
   parent |-> NoRow, mentions |-> <<>>, k |-> 0, err |-> NoError]

\* the row prisma creates, id SERIAL, with its user included
NewRow(table, p) ==
  [id |-> Len(table) + 1, userId |-> p.userId, user |-> UserRow(p.userId),
   commentId |-> p.commentId, content |-> p.content]

\* commentRepository.getCommentById: the row, or none
Found(table, id) == {i \in 1..Len(table) : table[i].id = id}

CommentState(p, cs, rs, ms, ns) ==
  [post |-> p, comments |-> cs, replies |-> rs, mentionRows |-> ms,
   notified |-> ns]

\* commentService.js 14-56, from one await to the next
createComment(p, cs, rs, ms, ns) ==
  IF p.pc = "called"
  THEN { CommentState([p EXCEPT !.pc = "create"], cs, rs, ms, ns) }
  ELSE IF p.pc = "create"
  THEN { CommentState([p EXCEPT !.pc = "raised", !.err = StoreError],
                      cs, rs, ms, ns),
         LET comment == NewRow(cs, p)
             mentions == extractMentions(p.content)
         IN IF Len(mentions) > 0
            THEN CommentState(
                   [p EXCEPT !.pc = "mentions", !.row = comment,
                             !.mentions = mentions],
                   Append(cs, comment), rs, ms,
                   ns \o sendCommentNotification(
                           MentionArgument(comment, p.content, mentions)
                         ).notifications)
            ELSE CommentState([p EXCEPT !.pc = "returned", !.row = comment],
                              Append(cs, comment), rs, ms, ns) }
  ELSE IF p.pc = "mentions"
  THEN { CommentState([p EXCEPT !.pc = "returned"], cs, rs, ms, ns) }
  ELSE {}

\* commentService.js 164-194: the mention notifications are sent and awaited
ReplyMentionsStep(p, cs, rs, ms, ns) ==
  CommentState([p EXCEPT !.pc = "mentions"], cs, rs, ms,
               ns \o sendCommentNotification(
                       MentionArgument(p.row, p.content, p.mentions)
                     ).notifications)

\* commentService.js 181-194: the reply notification is sent and awaited; an
\* error of it is logged when the await is over
ReplyNoteStep(p, cs, rs, ms, ns) ==
  CommentState([p EXCEPT !.pc = "replyNote"], cs, rs, ms,
               ns \o sendReplyNotification(
                       ReplyArgument(p.row, p.content, p.parent)
                     ).notifications)

\* commentService.js 129-208, from one await to the next
createReply(p, cs, rs, ms, ns) ==
  IF p.pc = "called"
  THEN { CommentState([p EXCEPT !.pc = "lookup"], cs, rs, ms, ns) }
  ELSE IF p.pc = "lookup"
  THEN { CommentState([p EXCEPT !.pc = "raised", !.err = StoreError],
                      cs, rs, ms, ns),
         IF Found(cs, p.commentId) = {}
         THEN CommentState([p EXCEPT !.pc = "raised", !.err = ParentNotFound],
                           cs, rs, ms, ns)
         ELSE CommentState(
                [p EXCEPT !.pc = "create",
                          !.parent = cs[CHOOSE i \in Found(cs, p.commentId) :
                                          TRUE]],
                cs, rs, ms, ns) }
  ELSE IF p.pc = "create"
  THEN { CommentState([p EXCEPT !.pc = "raised", !.err = StoreError],
                      cs, rs, ms, ns),
         LET reply == NewRow(rs, p)
             mentions == extractMentions(p.content)
             q == [p EXCEPT !.row = reply, !.mentions = mentions]
         IN IF Len(mentions) > 0
            THEN CommentState([q EXCEPT !.pc = "mention", !.k = 1],
                              cs, Append(rs, reply), ms, ns)
            ELSE ReplyNoteStep(q, cs, Append(rs, reply), ms, ns) }
  ELSE IF p.pc = "mention"
  THEN LET after(rows) ==
             IF p.k < Len(p.mentions)
             THEN CommentState([p EXCEPT !.k = p.k + 1], cs, rs, rows, ns)
             ELSE ReplyMentionsStep(p, cs, rs, rows, ns)
       IN { after(Append(ms, [replyId |-> p.row.id,
                              userId |-> p.mentions[p.k].id])),
            after(ms) }
  ELSE IF p.pc = "mentions"
  THEN { ReplyNoteStep(p, cs, rs, ms, ns) }
  ELSE IF p.pc = "replyNote"
  THEN { CommentState([p EXCEPT !.pc = "returned"], cs, rs, ms, ns) }
  ELSE {}

\* ------------------------------------------------------------ authRateLimit
\* lines 270-271
windowMs == 15 * 60 * 1000
maxAttempts == 5

\* line 278: attempts.filter(time => now - time < windowMs)
recentAttempts(attempts, now) ==
  SelectSeq(attempts, LAMBDA time : now - time < windowMs)

\* (variant: the limit is passed only by the attempt after the last)
TooManyAbove(recent) == Len(recent) > maxAttempts

\* line 280
TooMany(recent) == Len(recent) >= maxAttempts

\* The middleware for a request of clientId at time now: the response
\* status written (0: none), whether next() was called, and the Map after.
\* It has no await: the whole function is one step.
authRateLimit(attempts, clientId, now) ==
  LET recent == recentAttempts(attempts[clientId], now)
  IN IF TooMany(recent)
     THEN [status |-> 429, next |-> FALSE, authAttempts |-> attempts]
     ELSE [status |-> 0, next |-> TRUE,
           authAttempts |-> [attempts EXCEPT ![clientId] =
                                               Append(recent, now)]]

\* ------------------------------------------------------------------ actions
Providers == {NoProvider, "smtp", "gmail"}
PushProviders == {NoProvider, "firebase", "fcm"}

\* flows that take no part in a specification
IdleCall == [NewCall("T1", 0, NoProvider) EXCEPT !.pc = "idle"]
IdleSweep == [NewSweep(1) EXCEPT !.pc = "idle"]
IdleBulk == [pc |-> "idle", n |-> 0, batchSize |-> 1, i |-> 0,
             provider |-> NoProvider, results |-> <<>>,
             summary |-> NoSummary]
IdlePush == [pc |-> "idle", tenantId |-> "T1", n |-> 0, k |-> 1,
             provider |-> NoProvider, notifications |-> <<>>,
             tokens |-> {}, delivered |-> {},
             results |-> <<>>, summary |-> NoSummary, err |-> NoError]

NoCleanup == [n |-> 0, daysOld |-> 0, count |-> 0]

\* the clock does not move and no row is deleted
TimeStill == clock = 0 /\ deleted = {} /\ cleanup = NoCleanup

\* the registries are not used
RegistryIdle ==
  /\ registry = EmptyRegistry
  /\ made = <<>>
  /\ history = <<>>
  /\ env = {}

IdleNotification == [NewNotification(TRUE, <<>>) EXCEPT !.pc = "idle"]

NotifyIdle == notify = IdleNotification

IdlePost == [NewPost("comment", "ann", NoId, <<>>) EXCEPT !.pc = "idle"]

\* the Comment table holds one comment, the other tables are empty
CommentTables ==
  /\ comments = <<NewRow(<<>>, NewPost("comment", "ann", NoId, <<>>))>>
  /\ replies = <<>>
  /\ mentionRows = <<>>
  /\ notified = <<>>

CommentIdle == post = IdlePost /\ CommentTables

\* authenticateToken: req.user is a user of one of the tenants
Tenants == {"T1", "T2"}

NoRequest == [n |-> 0, op |-> "none", tenantId |-> "T1", rows |-> {}]

\* the request the controller has handled
Handled(op, tenantId, rows) ==
  [n |-> request.n + 1, op |-> op, tenantId |-> tenantId, rows |-> rows]

RequestIdle == request = NoRequest

IdlePushCall == [NewPushCall("T1", 0, NoProvider) EXCEPT !.pc = "idle"]

PushOneIdle == pushOne = IdlePushCall /\ pushSends = 0 /\ pushCalls = <<>>

\* no request has reached authRateLimit: global.authAttempts is not set,
\* and `get(clientId) || []` reads an empty list for every address
Clients == {"ip1", "ip2"}
NoAnswer == [n |-> 0, ip |-> "none", status |-> 0, next |-> FALSE]
RateIdle ==
  /\ authAttempts = [c \in Clients |-> <<>>]
  /\ nowMs = 0
  /\ passedOn = [c \in Clients |-> <<>>]
  /\ answer = NoAnswer

OthersIdle ==
  /\ RegistryIdle /\ NotifyIdle /\ CommentIdle /\ RequestIdle
  /\ PushOneIdle /\ RateIdle

\* single sends and two retry sweeps
Init ==
  /\ emailLogs = <<>>
  /\ storeFaults = 0
  /\ sends = 1
  /\ \E p \in Providers : one = NewCall("T1", 0, p)
  /\ \E la, lb \in 1..MaxLimit :
       retry = [s \in Sweeps |-> NewSweep(IF s = "A" THEN la ELSE lb)]
  /\ bulk = IdleBulk
  /\ batches = <<>>
  /\ push = IdlePush
  /\ pushNotifications = <<>>
  /\ TimeStill
  /\ OthersIdle

\* one bulk send
InitBulk ==
  /\ emailLogs = <<>>
  /\ storeFaults = 0
  /\ sends = 0
  /\ one = IdleCall
  /\ retry = [s \in Sweeps |-> IdleSweep]
  /\ \E n \in 1..MaxItems, bsz \in 1..MaxBatchSize, p \in Providers :
       bulk = [IdleBulk EXCEPT !.pc = "loop", !.n = n, !.batchSize = bsz,
                               !.provider = p]
  /\ batches = <<>>
  /\ push = IdlePush
  /\ pushNotifications = <<>>
  /\ TimeStill
  /\ OthersIdle

\* one bulk send and one retry sweep
InitMix ==
  /\ emailLogs = <<>>
  /\ storeFaults = 0
  /\ sends = 0
  /\ one = IdleCall
  /\ \E la \in 1..MaxLimit :
       retry = [s \in Sweeps |-> IF s = "A" THEN NewSweep(la) ELSE IdleSweep]
  /\ \E n \in 1..MaxMixItems, bsz \in 1..MaxBatchSize, p \in Providers :
       bulk = [IdleBulk EXCEPT !.pc = "loop", !.n = n, !.batchSize = bsz,
                               !.provider = p]
  /\ batches = <<>>
  /\ push = IdlePush
  /\ pushNotifications = <<>>
  /\ TimeStill
  /\ OthersIdle

\* one bulk push send
InitPush ==
  /\ emailLogs = <<>>
  /\ storeFaults = 0
  /\ sends = 0
  /\ one = IdleCall
  /\ retry = [s \in Sweeps |-> IdleSweep]
  /\ bulk = IdleBulk
  /\ batches = <<>>
  /\ \E n \in 1..MaxUserIds, p \in PushProviders :
       push = [IdlePush EXCEPT !.pc = "create", !.n = n, !.provider = p]
  /\ pushNotifications = <<>>
  /\ TimeStill
  /\ OthersIdle

\* single sends and one retry sweep
InitSweep ==
  /\ emailLogs = <<>>
  /\ storeFaults = 0
  /\ sends = 1
  /\ \E p \in Providers : one = NewCall("T1", 0, p)
  /\ \E la \in 1..MaxLimit :
       retry = [s \in Sweeps |-> IF s = "A" THEN NewSweep(la) ELSE IdleSweep]
  /\ bulk = IdleBulk
  /\ batches = <<>>
  /\ push = IdlePush
  /\ pushNotifications = <<>>
  /\ clock = 0
  /\ deleted = {}
  /\ cleanup = NoCleanup
  /\ OthersIdle

\* single sends, with the clock and the cleanup
InitCleanup ==
  /\ emailLogs = <<>>
  /\ storeFaults = 0
  /\ sends = 1
  /\ \E p \in Providers : one = NewCall("T1", 0, p)
  /\ retry = [s \in Sweeps |-> IdleSweep]
  /\ bulk = IdleBulk
  /\ batches = <<>>
  /\ push = IdlePush
  /\ pushNotifications = <<>>
  /\ clock = 0
  /\ deleted = {}
  /\ cleanup = NoCleanup
  /\ OthersIdle

\* the process has started: the three Maps are empty, process.env holds
\* the credentials of some channels
InitRegistry ==
  /\ emailLogs = <<>>
  /\ storeFaults = 0
  /\ sends = 0
  /\ one = IdleCall
  /\ retry = [s \in Sweeps |-> IdleSweep]
  /\ bulk = IdleBulk
  /\ batches = <<>>
  /\ push = IdlePush
  /\ pushNotifications = <<>>
  /\ TimeStill
  /\ registry = EmptyRegistry
  /\ made = <<>>
  /\ history = <<>>
  /\ env \in SUBSET Channels
  /\ NotifyIdle
  /\ CommentIdle
  /\ RequestIdle
  /\ PushOneIdle
  /\ RateIdle

\* the sequences over S of length n
SeqsOfLen(S, n) == [1..n -> S]

\* one sendNotification call, with or without options.channels
InitNotify ==
  /\ emailLogs = <<>>
  /\ storeFaults = 0
  /\ sends = 0
  /\ one = IdleCall
  /\ retry = [s \in Sweeps |-> IdleSweep]
  /\ bulk = IdleBulk
  /\ batches = <<>>
  /\ push = IdlePush
  /\ pushNotifications = <<>>
  /\ TimeStill
  /\ RegistryIdle
  /\ CommentIdle
  /\ RequestIdle
  /\ PushOneIdle
  /\ RateIdle
  /\ \/ notify = NewNotification(FALSE, <<>>)
     \/ \E n \in 0..MaxChannels :
          \E channels \in SeqsOfLen(ChannelArgs, n) :
            notify = NewNotification(TRUE, channels)

\* a user of either tenant sends; one sweep waits to be asked for.  The
\* log store takes every write.
InitTenant ==
  /\ emailLogs = <<>>
  /\ storeFaults = MaxStoreFaults
  /\ sends = 1
  /\ \E t \in Tenants : one = NewCall(t, 0, NoProvider)
  /\ \E la \in 1..MaxLimit :
       retry = [s \in Sweeps |-> IF s = "A" THEN NewSweep(la) ELSE IdleSweep]
  /\ bulk = IdleBulk
  /\ batches = <<>>
  /\ push = IdlePush
  /\ pushNotifications = <<>>
  /\ clock = 0
  /\ deleted = {}
  /\ cleanup = NoCleanup
  /\ OthersIdle

\* single push sends
InitPushOne ==
  /\ emailLogs = <<>>
  /\ storeFaults = 0
  /\ sends = 0
  /\ one = IdleCall
  /\ retry = [s \in Sweeps |-> IdleSweep]
  /\ bulk = IdleBulk
  /\ batches = <<>>
  /\ push = IdlePush
  /\ pushNotifications = <<>>
  /\ TimeStill
  /\ RegistryIdle
  /\ NotifyIdle
  /\ CommentIdle
  /\ RequestIdle
  /\ RateIdle
  /\ pushSends = 1
  /\ pushCalls = <<>>
  /\ \E userId \in 1..MaxUserIds, p \in PushProviders :
       pushOne = NewPushCall("T1", userId, p)

\* one createComment call, or one createReply call to the comment in the
\* table or to one that is not there
InitComment ==
  /\ emailLogs = <<>>
  /\ storeFaults = 0
  /\ sends = 0
  /\ one = IdleCall
  /\ retry = [s \in Sweeps |-> IdleSweep]
  /\ bulk = IdleBulk
  /\ batches = <<>>
  /\ push = IdlePush
  /\ pushNotifications = <<>>
  /\ TimeStill
  /\ RegistryIdle
  /\ NotifyIdle
  /\ RequestIdle
  /\ PushOneIdle
  /\ RateIdle
  /\ CommentTables
  /\ \E n \in 0..MaxWords : \E content \in SeqsOfLen(Words, n) :
       \E userId \in Users :
         \/ post = NewPost("comment", userId, NoId, content)
         \/ \E commentId \in 1..2 :
              post = NewPost("reply", userId, commentId, content)

\* POST /emails/send: the sendEmail call takes its next step
SendOne ==
  /\ \E o \in sendEmail(one, emailLogs, storeFaults) :
       /\ one' = o.task
       /\ emailLogs' = o.logs
       /\ storeFaults' = o.faults
  /\ UNCHANGED <<sends, retry, bulk, batches, pushVars, timeVars,
                 otherVars>>

\* the client repeats its POST /emails/send after the previous one was
\* answered
SendAgain ==
  /\ Finished(one)
  /\ sends < MaxSends
  /\ sends' = sends + 1
  /\ one' = NewCall(one.tenantId, one.to, one.provider)
  /\ UNCHANGED <<emailLogs, storeFaults, retry, bulk, batches, pushVars,
                 timeVars, otherVars>>

\* POST /emails/retry-failed: sweep s takes its next step
RetryFailed(s) ==
  /\ \E o \in retryFailedEmails(retry[s], emailLogs, storeFaults) :
       /\ retry' = [retry EXCEPT ![s] = o.task]
       /\ emailLogs' = o.logs
       /\ storeFaults' = o.faults
  /\ UNCHANGED <<one, sends, bulk, batches, pushVars, timeVars,
                 otherVars>>

\* one iteration of the loop of lines 94-104: on entry, or when the timer
\* of line 102 fires.  processEmailBatch runs up to its first await.
BulkLoop ==
  /\ bulk.pc \in {"loop", "delay"}
  /\ batches' = Append(batches,
                       NewBatch(Slice(bulk.i, bulk.batchSize, bulk.n),
                                bulk.provider))
  /\ bulk' = [bulk EXCEPT !.i = bulk.i + bulk.batchSize,
                          !.pc = IF bulk.i + bulk.batchSize < bulk.n
                                 THEN "delay" ELSE "await"]
  /\ UNCHANGED <<emailLogs, storeFaults, one, sends, retry, pushVars,
                 timeVars, otherVars>>

\* the sendEmail call that batch b awaits takes its next step
BatchStep(b) ==
  /\ ~BatchDone(batches[b])
  /\ \E o \in sendEmail(batches[b].task, emailLogs, storeFaults) :
       /\ batches' = [batches EXCEPT ![b] = processEmailBatch(batches[b],
                                                              o.task)]
       /\ emailLogs' = o.logs
       /\ storeFaults' = o.faults
  /\ UNCHANGED <<one, sends, retry, bulk, pushVars, timeVars,
                 otherVars>>

\* Promise.all of line 106 resolves; lines 107-122
BulkReturn ==
  /\ bulk.pc = "await"
  /\ \A b \in 1..Len(batches) : BatchDone(batches[b])
  /\ LET results == Flat(batches)
     IN bulk' = [bulk EXCEPT
                   !.pc = "returned",
                   !.results = results,
                   !.summary = [total |-> bulk.n,
                                successful |-> CountSuccess(results, TRUE),
                                failed |-> CountSuccess(results, FALSE)]]
  /\ UNCHANGED <<emailLogs, storeFaults, one, sends, retry, batches,
                 pushVars, timeVars, otherVars>>

\* POST /push/send-bulk: the call takes its next step
SendBulkPush ==
  /\ \E o \in sendBulkPushNotification(push, pushNotifications, storeFaults) :
       /\ push' = o.task
       /\ pushNotifications' = o.logs
       /\ storeFaults' = o.faults
  /\ UNCHANGED <<emailLogs, one, sends, retry, bulk, batches, timeVars,
                 otherVars>>

\* time passes
Tick ==
  /\ clock < MaxTicks * TickHours
  /\ clock' = clock + TickHours
  /\ UNCHANGED <<flowVars, pushVars, deleted, cleanup, otherVars>>

\* DELETE /emails/:id of a row the table holds
DeleteLog(id) ==
  /\ id \in Rows(emailLogs)
  /\ deleted' = deleteEmailLog(deleted, id)
  /\ UNCHANGED <<flowVars, pushVars, clock, cleanup, otherVars>>

\* DELETE /emails/cleanup?daysOld=: one deleteMany statement
CleanupOld(daysOld) ==
  /\ cleanup.n < MaxCleanups
  /\ LET gone == cleanupOldEmailLogs(emailLogs, daysOld)
     IN /\ deleted' = deleted \cup gone
        /\ cleanup' = [n |-> cleanup.n + 1, daysOld |-> daysOld,
                       count |-> Cardinality(gone)]
  /\ UNCHANGED <<flowVars, pushVars, clock, otherVars>>

\* emailConfig.sendEmail / smsConfig.sendSms / pushConfig.sendNotification
\* with this provider argument, up to its await: the adapter is taken from
\* the registry, and when that has not thrown the vendor call is issued
ConfigSend(channel, provider) ==
  /\ Len(history) < MaxGets
  /\ LET g == getClient(registry, made, channel, provider, channel \in env)
     IN /\ registry' = g.registry
        /\ made' = g.made
        /\ history' = Append(history,
                             [channel |-> channel, provider |-> provider,
                              instance |-> g.instance, error |-> g.error,
                              vendorCall |-> g.error = NoError])
  /\ UNCHANGED <<flowVars, pushVars, timeVars, env, notifyVars, commentVars,
                 requestVars, pushOneVars, rateVars>>

\* the sendNotification call takes its next step
Notify ==
  /\ \E n \in sendNotification(notify) :
       /\ notify' = n
       /\ emailLogs' = IF Len(n.calls) > Len(notify.calls)
                       THEN emailLogs \o n.calls[Len(n.calls)].logs
                       ELSE emailLogs
  /\ UNCHANGED <<storeFaults, one, sends, retry, bulk, batches, pushVars,
                 timeVars, registryVars, commentVars, requestVars,
                 pushOneVars, rateVars>>

\* POST /emails/send of a user of tenant t after the previous send was
\* answered (smsRoutes.js 180-199: tenantId is req.user.tenantId)
SendAs(t) ==
  /\ Finished(one)
  /\ sends < MaxSends
  /\ sends' = sends + 1
  /\ one' = NewCall(t, one.to, one.provider)
  /\ UNCHANGED <<emailLogs, storeFaults, retry, bulk, batches, pushVars,
                 timeVars, otherVars>>

\* GET /emails/logs of a user of tenant t (smsRoutes.js 324-347)
GetEmailLogs(t) ==
  /\ request.n < MaxRequests
  /\ request' = Handled("list", t, getEmailLogs(emailLogs, t))
  /\ UNCHANGED <<flowVars, pushVars, timeVars, registryVars, notifyVars,
                 commentVars, pushOneVars, rateVars>>

\* GET /emails/logs/:id of a user of tenant t (smsRoutes.js 352-373)
GetEmailLogById(t, id) ==
  /\ request.n < MaxRequests
  /\ request' = Handled("get", t, getEmailLogById(emailLogs, id))
  /\ UNCHANGED <<flowVars, pushVars, timeVars, registryVars, notifyVars,
                 commentVars, pushOneVars, rateVars>>

\* DELETE /emails/logs/:id of an admin of tenant t (smsRoutes.js 465-481)
DeleteEmailLogAs(t, id) ==
  /\ request.n < MaxRequests
  /\ id \in Rows(emailLogs)
  /\ deleted' = deleteEmailLog(deleted, id)
  /\ request' = Handled("delete", t, {id})
  /\ UNCHANGED <<flowVars, pushVars, clock, cleanup, registryVars,
                 notifyVars, commentVars, pushOneVars, rateVars>>

\* POST /emails/retry-failed of an admin of tenant t (smsRoutes.js 403-417):
\* the sweep selects the rows it is going to send again
RetryFailedAs(t) ==
  /\ request.n < MaxRequests
  /\ retry["A"].pc = "select"
  /\ \E o \in retryFailedEmails(retry["A"], emailLogs, storeFaults) :
       /\ retry' = [retry EXCEPT !["A"] = o.task]
       /\ emailLogs' = o.logs
       /\ storeFaults' = o.faults
       /\ request' = Handled("retry", t,
                             {o.task.sel[k] : k \in 1..Len(o.task.sel)})
  /\ UNCHANGED <<one, sends, bulk, batches, pushVars, timeVars,
                 registryVars, notifyVars, commentVars, pushOneVars,
                 rateVars>>

\* the sweep that was asked for takes its next step
RetryGoesOn ==
  /\ retry["A"].pc # "select"
  /\ RetryFailed("A")

\* DELETE /emails/cleanup of an admin of tenant t (smsRoutes.js 422-436)
CleanupOldAs(t, daysOld) ==
  /\ request.n < MaxRequests
  /\ cleanup.n < MaxCleanups
  /\ LET gone == cleanupOldEmailLogs(emailLogs, daysOld)
     IN /\ deleted' = deleted \cup gone
        /\ cleanup' = [n |-> cleanup.n + 1, daysOld |-> daysOld,
                       count |-> Cardinality(gone)]
        /\ request' = Handled("cleanup", t, gone)
  /\ UNCHANGED <<flowVars, pushVars, clock, registryVars, notifyVars,
                 commentVars, pushOneVars, rateVars>>

\* the sendPushNotification call takes its next step
SendPush ==
  /\ \E o \in sendPushNotification(pushOne, pushNotifications, storeFaults) :
       /\ pushOne' = o.task
       /\ pushNotifications' = o.logs
       /\ storeFaults' = o.faults
       /\ pushCalls' = IF o.task.pc = "inflight"
                       THEN Append(pushCalls,
                                   [notificationId |-> o.task.id,
                                    tokens |-> <<o.task.userId>>,
                                    provider |-> o.task.provider])
                       ELSE pushCalls
  /\ UNCHANGED <<emailLogs, one, sends, retry, bulk, batches, push,
                 pushSends, timeVars, registryVars, notifyVars, commentVars,
                 requestVars, rateVars>>

\* the next POST /push/send, after the previous one was answered
SendPushAgain ==
  /\ pushOne.pc \in {"returned", "raised"}
  /\ pushSends < MaxPushSends
  /\ pushSends' = pushSends + 1
  /\ \E userId \in 1..MaxUserIds :
       pushOne' = NewPushCall(pushOne.tenantId, userId, pushOne.provider)
  /\ UNCHANGED <<flowVars, pushVars, pushCalls, timeVars, registryVars,
                 notifyVars, commentVars, requestVars, rateVars>>

CommentStep(c) ==
  /\ post' = c.post
  /\ comments' = c.comments
  /\ replies' = c.replies
  /\ mentionRows' = c.mentionRows
  /\ notified' = c.notified
  /\ UNCHANGED <<flowVars, pushVars, timeVars, registryVars, notifyVars,
                 requestVars, pushOneVars, rateVars>>

\* the createComment call takes its next step
CreateComment ==
  /\ post.kind = "comment"
  /\ \E c \in createComment(post, comments, replies, mentionRows, notified) :
       CommentStep(c)

\* the createReply call takes its next step
CreateReply ==
  /\ post.kind = "reply"
  /\ \E c \in createReply(post, comments, replies, mentionRows, notified) :
       CommentStep(c)

Next ==
  \/ SendOne
  \/ SendAgain
  \/ \E s \in Sweeps : RetryFailed(s)

NextBulk ==
  \/ BulkLoop
  \/ \E b \in 1..Len(batches) : BatchStep(b)
  \/ BulkReturn

NextMix ==
  \/ BulkLoop
  \/ \E b \in 1..Len(batches) : BatchStep(b)
  \/ BulkReturn
  \/ RetryFailed("A")

NextPush == SendBulkPush

NextWindow ==
  \/ SendOne
  \/ SendAgain
  \/ RetryFailed("A")
  \/ Tick

NextDelete ==
  \/ SendOne
  \/ SendAgain
  \/ RetryFailed("A")
  \/ \E id \in 1..Len(emailLogs) : DeleteLog(id)

NextRegistry ==
  \E channel \in Channels :
    \E provider \in ProviderArgs(channel) : ConfigSend(channel, provider)

NextNotify == Notify

NextComment == CreateComment \/ CreateReply

NextPushOne == SendPush \/ SendPushAgain

NextTenant ==
  \/ SendOne
  \/ Tick
  \/ RetryGoesOn
  \/ \E t \in Tenants :
       \/ SendAs(t)
       \/ GetEmailLogs(t)
       \/ RetryFailedAs(t)
       \/ \E id \in 1..MaxSends : GetEmailLogById(t, id)
       \/ \E id \in 1..MaxSends : DeleteEmailLogAs(t, id)
       \/ \E daysOld \in 1..MaxDaysOld : CleanupOldAs(t, daysOld)

NextCleanup ==
  \/ SendOne
  \/ SendAgain
  \/ Tick
  \/ \E daysOld \in 1..MaxDaysOld : CleanupOld(daysOld)

Spec == Init /\ [][Next]_vars
SpecBulk == InitBulk /\ [][NextBulk]_vars
SpecMix == InitMix /\ [][NextMix]_vars
SpecPush == InitPush /\ [][NextPush]_vars

\* single sends and two retry sweeps; the log store takes every write
InitLive ==
  /\ emailLogs = <<>>
  /\ storeFaults = MaxStoreFaults
  /\ sends = 1
  /\ \E p \in Providers : one = NewCall("T1", 0, p)
  /\ \E la, lb \in 1..MaxLimit :
       retry = [s \in Sweeps |-> NewSweep(IF s = "A" THEN la ELSE lb)]
  /\ bulk = IdleBulk
  /\ batches = <<>>
  /\ push = IdlePush
  /\ pushNotifications = <<>>
  /\ TimeStill
  /\ OthersIdle

\* Date.now() goes on
AuthTick ==
  /\ nowMs < MaxAuthTicks * AuthTickMs
  /\ nowMs' = nowMs + AuthTickMs
  /\ UNCHANGED <<authAttempts, passedOn, answer>>
  /\ UNCHANGED <<flowVars, pushVars, timeVars, registryVars, notifyVars,
                 commentVars, requestVars, pushOneVars>>

\* a request of client address c reaches authRateLimit
AuthRequest(c) ==
  /\ answer.n < MaxAuthRequests
  /\ LET r == authRateLimit(authAttempts, c, nowMs)
     IN /\ authAttempts' = r.authAttempts
        /\ answer' = [n |-> answer.n + 1, ip |-> c, status |-> r.status,
                      next |-> r.next]
        /\ passedOn' = IF r.next
                       THEN [passedOn EXCEPT ![c] = Append(@, nowMs)]
                       ELSE passedOn
  /\ UNCHANGED nowMs
  /\ UNCHANGED <<flowVars, pushVars, timeVars, registryVars, notifyVars,
                 commentVars, requestVars, pushOneVars>>

\* no request has reached authRateLimit yet
InitRate ==
  /\ emailLogs = <<>>
  /\ storeFaults = 0
  /\ sends = 0
  /\ one = IdleCall
  /\ retry = [s \in Sweeps |-> IdleSweep]
  /\ bulk = IdleBulk
  /\ batches = <<>>
  /\ push = IdlePush
  /\ pushNotifications = <<>>
  /\ TimeStill
  /\ OthersIdle

NextRate == AuthTick \/ \E c \in Clients : AuthRequest(c)

\* Every await of a flow is over in the end: the store answers, the vendor
\* call returns or throws, and the event loop runs the continuation.
SpecLive ==
  /\ InitLive
  /\ [][Next]_vars
  /\ WF_vars(SendOne)
  /\ \A s \in Sweeps : WF_vars(RetryFailed(s))
SpecWindow == InitSweep /\ [][NextWindow]_vars
SpecDelete == InitSweep /\ [][NextDelete]_vars
SpecCleanup == InitCleanup /\ [][NextCleanup]_vars
SpecRegistry == InitRegistry /\ [][NextRegistry]_vars
SpecNotify == InitNotify /\ [][NextNotify]_vars
SpecComment == InitComment /\ [][NextComment]_vars
SpecTenant == InitTenant /\ [][NextTenant]_vars
SpecPushOne == InitPushOne /\ [][NextPushOne]_vars
SpecRate == InitRate /\ [][NextRate]_vars

\* ================================================================= claims

\* every sendEmail call there is: the single one and the one each batch awaits
Calls == {one} \cup {batches[b].task : b \in 1..Len(batches)}

HasRow(t) == t.id \in 1..Len(emailLogs)

\* C1: log before dispatch.  While the vendor call of a sendEmail call is in
\* flight its log row exists with status pending, and a call whose log was
\* never created has not got as far as the vendor call.
LogBeforeDispatch ==
  \A t \in Calls :
    /\ t.pc = "inflight" => HasRow(t) /\ emailLogs[t.id].status = "pending"
    /\ t.pc \in {"inflight", "vendorOk", "vendorErr", "returned"}
         => HasRow(t)
    /\ t.pc = "raised" /\ t.id = NoId => t.err = StoreError

\* C1 witness: the vendor call of the second send is in flight over a
\* pending row while a retry sweep has a vendor call in flight too
LogBeforeDispatchWitness ==
  /\ one.pc = "inflight"
  /\ sends = 2
  /\ HasRow(one) /\ emailLogs[one.id].status = "pending"
  /\ \E s \in Sweeps : retry[s].pc = "inflight"

\* C2 (as claimed): status terminality.  A row that is sent keeps status
\* sent in every step of every flow.
StatusTerminal ==
  [][\A i \in 1..Len(emailLogs) :
       emailLogs[i].status = "sent" => emailLogs'[i].status = "sent"]_vars

\* C3 (as claimed): every write to a row takes its status along
\* pending->sent, pending->failed or failed->pending.
LegalTransitions ==
  {<<"pending", "sent">>, <<"pending", "failed">>, <<"failed", "pending">>}

OnlyLegalTransitions ==
  [][\A i \in 1..Len(emailLogs) :
       emailLogs'[i] # emailLogs[i]
         => <<emailLogs[i].status, emailLogs'[i].status>>
              \in LegalTransitions]_vars

\* C4: when the adapter call of a sendEmail call has thrown, the call ends
\* in the next step by raising, and it raises the adapter's error only with
\* the row written to failed with that error's message.  The one other way
\* out is that this very write is rejected by the store, whose error then
\* leaves instead.
AdapterErrorRecordedThenRaised ==
  [][(one.pc = "vendorErr" /\ one.err = VendorError /\ one' # one)
       => /\ one'.pc = "raised"
          /\ \/ /\ one'.err = VendorError
                /\ emailLogs'[one.id].status = "failed"
                /\ emailLogs'[one.id].errorMessage = VendorError
             \/ /\ one'.err = StoreError
                /\ storeFaults' = storeFaults + 1
                /\ emailLogs' = emailLogs]_vars

\* C4 witness: the call has raised the adapter's error and the row is failed
\* with its message
AdapterErrorRecordedThenRaisedWitness ==
  /\ one.pc = "raised"
  /\ one.err = VendorError
  /\ HasRow(one)
  /\ emailLogs[one.id].status = "failed"
  /\ emailLogs[one.id].errorMessage = VendorError

\* ----------------------------------------------------------- bulk sends
\* the rows a send for bulk item j has left in the table
RowsOf(j) ==
  {i \in 1..Len(emailLogs) :
     emailLogs[i].tenantId = BulkTenant /\ emailLogs[i].to = j}

\* j is at position q of batch b
At(b, q, j) == q \in 1..Len(batches[b].items) /\ batches[b].items[q] = j

\* sendEmail has been called for item j
Attempted(j) ==
  \E b \in 1..Len(batches) : \E q \in 1..batches[b].k : At(b, q, j)

\* the sendEmail call for item j is past its createEmailLog
PastCreate(j) ==
  \E b \in 1..Len(batches) :
    \/ \E q \in 1..(batches[b].k - 1) : At(b, q, j)
    \/ At(b, batches[b].k, j) /\ batches[b].task.pc # "start"

\* the vendor call for item j is in flight
InFlight(j) ==
  \E b \in 1..Len(batches) :
    At(b, batches[b].k, j) /\ batches[b].task.pc = "inflight"

\* the vendor call for item j has been issued / has completed
Issued(j) ==
  \E b \in 1..Len(batches) :
    \/ \E q \in 1..(batches[b].k - 1) : At(b, q, j)
    \/ At(b, batches[b].k, j) /\ batches[b].task.pc \notin {"start"}

Completed(j) ==
  \E b \in 1..Len(batches) :
    \/ \E q \in 1..(batches[b].k - 1) : At(b, q, j)
    \/ At(b, batches[b].k, j)
         /\ batches[b].task.pc \notin {"start", "inflight"}

\* the entry processEmailBatch has pushed for item j says success
Succeeded(j) ==
  \E b \in 1..Len(batches) : \E q \in 1..Len(batches[b].results) :
    batches[b].results[q].to = j /\ batches[b].results[q].success

\* C5: one row per send attempt.  Every row of the table belongs to one bulk
\* item; an item has no row before its sendEmail call has created it, never
\* more than one, and exactly one once the call is past createEmailLog with
\* no store write rejected; the retry sweep running alongside adds none.
\* Once a send with an explicit provider has returned, the rows of the
\* tenant hold exactly one row for it, with status sent and that provider.
OneRowPerAttempt ==
  /\ \A i \in 1..Len(emailLogs) :
       emailLogs[i].tenantId = BulkTenant /\ emailLogs[i].to \in 1..bulk.n
  /\ \A j \in 1..bulk.n :
       /\ Cardinality(RowsOf(j)) <= 1
       /\ ~PastCreate(j) => RowsOf(j) = {}
       /\ PastCreate(j) /\ storeFaults = 0 => Cardinality(RowsOf(j)) = 1
       /\ Succeeded(j) /\ bulk.provider # NoProvider
            => /\ Cardinality(RowsOf(j)) = 1
               /\ RowsOf(j) \subseteq getEmailLogs(emailLogs, BulkTenant)
               /\ \A i \in RowsOf(j) :
                    /\ emailLogs[i].status = "sent"
                    /\ emailLogs[i].provider = bulk.provider

\* C5 witness: two items sent, the sweep has retried a failed one to sent,
\* and the table has two rows
OneRowPerAttemptWitness ==
  /\ bulk.pc = "returned"
  /\ bulk.n = 2
  /\ bulk.provider = "gmail"
  /\ Len(emailLogs) = 2
  /\ retry["A"].pc = "returned"
  /\ \E q \in 1..Len(retry["A"].results) : retry["A"].results[q].success
  /\ \E j \in 1..bulk.n : Succeeded(j)

\* C6: bulk order preservation.  On return the results hold one entry per
\* item and entry j is the outcome of item j: it names item j, and when it
\* reports success its emailLogId is the row of item j.
BulkOrderPreserved ==
  bulk.pc = "returned" =>
    /\ Len(bulk.results) = bulk.n
    /\ \A j \in 1..bulk.n :
         /\ bulk.results[j].to = j
         /\ bulk.results[j].success
              => /\ bulk.results[j].emailLogId \in 1..Len(emailLogs)
                 /\ emailLogs[bulk.results[j].emailLogId].to = j
         /\ bulk.results[j].success <=> Succeeded(j)

\* C6 witness: the call has returned three entries although a later item's
\* send was logged before an earlier item's
BulkOrderPreservedWitness ==
  /\ bulk.pc = "returned"
  /\ bulk.n = 3
  /\ \E i1, i2 \in 1..Len(emailLogs) :
       i1 < i2 /\ emailLogs[i1].to > emailLogs[i2].to
  /\ \E j \in 1..bulk.n : bulk.results[j].success

\* C7: partial-failure isolation.  On return total is the number of items,
\* successful + failed = total, every item has been attempted and has its
\* entry, the row of every successful item is sent and the row of every item
\* whose vendor call failed is failed with the vendor's message.
PartialFailureIsolation ==
  bulk.pc = "returned" =>
    /\ bulk.summary.total = bulk.n
    /\ bulk.summary.successful + bulk.summary.failed = bulk.summary.total
    /\ Len(bulk.results) = bulk.n
    /\ \A j \in 1..bulk.n :
         /\ Attempted(j)
         /\ storeFaults = 0 => Cardinality(RowsOf(j)) = 1
         /\ bulk.results[j].success
              => /\ RowsOf(j) = {bulk.results[j].emailLogId}
                 /\ emailLogs[bulk.results[j].emailLogId].status = "sent"
         /\ (~bulk.results[j].success /\ bulk.results[j].error = VendorError)
              => /\ Cardinality(RowsOf(j)) = 1
                 /\ \A i \in RowsOf(j) :
                      /\ emailLogs[i].status = "failed"
                      /\ emailLogs[i].errorMessage = VendorError

\* C7 witness: of three items the second failed at the vendor and the other
\* two were sent
PartialFailureIsolationWitness ==
  /\ bulk.pc = "returned"
  /\ bulk.n = 3
  /\ bulk.summary = [total |-> 3, successful |-> 2, failed |-> 1]
  /\ ~bulk.results[2].success /\ bulk.results[2].error = VendorError
  /\ \A i \in RowsOf(2) : emailLogs[i].status = "failed"
  /\ \A i \in RowsOf(1) \cup RowsOf(3) : emailLogs[i].status = "sent"

\* C8 (as claimed): a bulk send never fails as a whole because of a vendor
\* error, on the push channel as on email and SMS.
BulkNeverRaisesVendorError ==
  /\ bulk.pc # "raised"
  /\ ~(push.pc = "raised" /\ push.err = VendorError)

\* C9 (as claimed): within one chunk the vendor call of every item is issued
\* before the vendor call of any item of the chunk has completed.
ChunkRunsConcurrently ==
  \A b \in 1..Len(batches) :
    \A q1, q2 \in 1..Len(batches[b].items) :
      Completed(batches[b].items[q1]) => Issued(batches[b].items[q2])

\* C10 (as claimed): no item of a later batch is attempted before every item
\* of the batch before it has been attempted, and items of two batches are
\* never in flight together.
BatchesDoNotOverlap ==
  \A b1, b2 \in 1..Len(batches) :
    b1 < b2 =>
      /\ \A q \in 1..Len(batches[b1].items) : Attempted(batches[b1].items[q])
      /\ ~(batches[b1].task.pc = "inflight" /\ batches[b2].task.pc = "inflight")

\* ------------------------------------------------- retry window, retention
\* the rows a selection made now is to choose from: failed, and created
\* within the last 24 hours
Eligible ==
  {i \in Rows(emailLogs) :
     /\ emailLogs[i].status = "failed"
     /\ clock - emailLogs[i].createdAt <= RetryWindowHours}

Selected(r) == {r.sel[q] : q \in 1..Len(r.sel)}

\* C11: retry selection.  The selection of a sweep returns rows that are
\* failed and were created within the last 24 hours, each once, oldest
\* first, min(limit, number of such rows) of them, and no row it leaves out
\* is older than one it returns.  The rows a sweep has selected were created
\* within the 24 hours before its selection, and a step of the sweep writes
\* to selected rows only: a failed row that was older is not retried.
RetrySelectionWindow ==
  [][/\ (retry["A"].pc = "select" /\ retry'["A"].pc # "select")
          => LET sel == retry'["A"].sel
             IN /\ Selected(retry'["A"]) \subseteq Eligible
                /\ Cardinality(Selected(retry'["A"])) = Len(sel)
                /\ Len(sel) = Min(retry["A"].limit, Cardinality(Eligible))
                /\ \A q1, q2 \in 1..Len(sel) :
                     q1 < q2 => emailLogs[sel[q1]].createdAt
                                  <= emailLogs[sel[q2]].createdAt
                /\ \A i \in Eligible \ Selected(retry'["A"]) :
                     \A q \in 1..Len(sel) :
                       emailLogs[sel[q]].createdAt <= emailLogs[i].createdAt
     /\ \A i \in Selected(retry'["A"]) :
          emailLogs'[i].createdAt >= retry'["A"].at - RetryWindowHours
     /\ retry' # retry
          => \A i \in 1..Len(emailLogs) :
               emailLogs'[i] # emailLogs[i] => i \in Selected(retry["A"])
    ]_vars

\* C11 witness: the sweep has selected a failed row and left out a failed
\* row that was created more than 24 hours before the selection
RetrySelectionWindowWitness ==
  /\ retry["A"].sel # <<>>
  /\ \E i \in Rows(emailLogs) \ Selected(retry["A"]) :
       /\ emailLogs[i].status = "failed"
       /\ emailLogs[i].createdAt < retry["A"].at - RetryWindowHours

\* ------------------------------------------------------------ retry sweeps
\* the store has rejected the write of this step
WriteRejected ==
  storeFaults' = storeFaults + 1 /\ emailLogs' = emailLogs

\* C12: the rows of a sweep one at a time.  In every step of a sweep only
\* the row at the loop position is written; the loop position moves on by
\* one, and only in a step that leaves that row sent or failed; the list
\* selected stays as it is.  For the row at the loop position: the reset
\* writes pending and is what issues the vendor call, with the to and the
\* provider stored on the row; the vendor's answer writes nothing; after
\* success the row is written sent, after a failure it is written failed
\* with the error's message, and the result entry says the same.  The one
\* other outcome of a write is that the store rejects it: a rejected reset
\* or sent leads to the catch block, a rejected failed ends the sweep.
RetryOneRowAtATime ==
  [][\A s \in Sweeps :
       LET r == retry[s]
           q == retry'[s]
           id == r.sel[r.k]
       IN (q # r /\ r.pc # "select") =>
            /\ q.sel = r.sel
            /\ \A i \in 1..Len(emailLogs) :
                 i # id => emailLogs'[i] = emailLogs[i]
            /\ q.k \in {r.k, r.k + 1}
            /\ q.k = r.k + 1
                 => /\ r.pc \in {"vendorOk", "vendorErr"}
                    /\ emailLogs'[id].status \in {"sent", "failed"}
                    /\ Len(q.results) = r.k
                    /\ q.results[r.k].emailLogId = id
            /\ q.pc = "inflight"
                 => /\ r.pc = "reset"
                    /\ emailLogs'[id].status = "pending"
                    /\ q.call.to = emailLogs[id].to
                    /\ q.call.provider = emailLogs[id].provider
            /\ r.pc = "reset"
                 => \/ q.pc = "inflight"
                    \/ q.pc = "vendorErr" /\ WriteRejected
            /\ r.pc = "inflight"
                 => /\ emailLogs' = emailLogs
                    /\ q.pc \in {"vendorOk", "vendorErr"}
            /\ r.pc = "vendorOk"
                 => \/ /\ emailLogs'[id].status = "sent"
                       /\ q.k = r.k + 1
                       /\ q.results[r.k].success
                    \/ q.pc = "vendorErr" /\ WriteRejected
            /\ r.pc = "vendorErr"
                 => \/ /\ emailLogs'[id].status = "failed"
                       /\ emailLogs'[id].errorMessage = r.err
                       /\ q.k = r.k + 1
                       /\ ~q.results[r.k].success
                       /\ q.results[r.k].error = r.err
                    \/ q.pc = "raised" /\ WriteRejected
    ]_vars

\* C12 witness: a sweep is at its second row, pending with the vendor call
\* issued through the row's provider, after its first row failed again
RetryOneRowAtATimeWitness ==
  \E s \in Sweeps :
    /\ retry[s].pc = "inflight"
    /\ Len(retry[s].sel) = 2
    /\ retry[s].k = 2
    /\ ~retry[s].results[1].success
    /\ emailLogs[retry[s].sel[1]].status = "failed"
    /\ emailLogs[retry[s].sel[2]].status = "pending"
    /\ emailLogs[retry[s].sel[2]].provider = "gmail"
    /\ retry[s].call.adapter = "gmail"

\* C13 (as claimed): a sweep does not raise because of what happens to one
\* of its rows.  With no write rejected by the store for any other reason,
\* a sweep whose selected row is deleted by a concurrent deleteEmailLog does
\* not raise, and when it has returned its result list holds one entry per
\* selected row.
RetryNeverRaises ==
  storeFaults = 0 =>
    /\ retry["A"].pc # "raised"
    /\ retry["A"].pc = "returned"
         => Len(retry["A"].results) = Len(retry["A"].sel)

\* row i was created more than daysOld days ago
OlderThan(i, daysOld) == clock - emailLogs[i].createdAt > daysOld * DayHours

\* C14: retention safety.  A cleanupOldEmailLogs(daysOld) call deletes the
\* rows of the table that are sent or failed and were created more than
\* daysOld days ago, all of them and no other row: no pending row whatever
\* its age, no row newer than the cutoff; it reports their number and
\* alters no row.
CleanupDeletesOldTerminalRows ==
  [][cleanup' # cleanup =>
       LET gone == deleted' \ deleted
           daysOld == cleanup'.daysOld
       IN /\ deleted \subseteq deleted'
          /\ \A i \in Rows(emailLogs) :
               i \in gone <=> /\ emailLogs[i].status \in {"sent", "failed"}
                              /\ OlderThan(i, daysOld)
          /\ \A i \in gone : emailLogs[i].status # "pending"
          /\ gone \subseteq Rows(emailLogs)
          /\ cleanup'.count = Cardinality(gone)
          /\ emailLogs' = emailLogs
    ]_vars

\* C14 witness: a cleanup has deleted an old failed row and left an equally
\* old row that is pending
CleanupDeletesOldTerminalRowsWitness ==
  /\ cleanup.n = 1
  /\ cleanup.count = 1
  /\ \E i \in deleted : emailLogs[i].status = "failed"
  /\ \E i \in Rows(emailLogs) :
       /\ emailLogs[i].status = "pending"
       /\ OlderThan(i, cleanup.daysOld)

\* ------------------------------------------------------- adapter registry
\* the provider name call h of the history asked its channel's registry for
NameOf(h) == ProviderName(h.provider, DefaultProvider(h.channel))

Answered == {i \in 1..Len(history) : history[i].error = NoError}

\* C15: adapter memoization.  Two calls that got an adapter got the same
\* instance exactly when they are on the same channel and name the same
\* provider, a call that leaves the name out counting as naming the
\* channel's default; the instance a call got is the one built for that
\* channel and name, and no channel and name has two instances built.
AdapterMemoized ==
  /\ \A i, j \in Answered :
       history[i].instance = history[j].instance
         <=> /\ history[i].channel = history[j].channel
             /\ NameOf(history[i]) = NameOf(history[j])
  /\ \A i \in Answered :
       /\ history[i].instance \in 1..Len(made)
       /\ made[history[i].instance] = [channel |-> history[i].channel,
                                        name |-> NameOf(history[i])]
       /\ registry[history[i].channel][NameOf(history[i])]
            = history[i].instance
  /\ \A a, b \in 1..Len(made) : made[a] = made[b] => a = b

\* C15 witness: smtp by name, then with the name left out, then gmail: the
\* first two calls got one instance, the third another, two were built
AdapterMemoizedWitness ==
  /\ Len(history) = 3
  /\ \A i \in 1..3 : history[i].channel = "email" /\ i \in Answered
  /\ history[1].provider = "smtp"
  /\ history[2].provider = NoProvider
  /\ history[3].provider = "gmail"
  /\ history[1].instance = history[2].instance
  /\ history[3].instance # history[1].instance
  /\ Len(made) = 2

\* C16 (as claimed): on every channel, a call that names a provider of the
\* channel whose credentials are not in the environment fails, leaves no
\* instance cached for that provider, and issues no vendor call.
MissingCredentialsFailFast ==
  \A i \in 1..Len(history) :
    (/\ NameOf(history[i]) \in SupportedProviders(history[i].channel)
     /\ history[i].channel \notin env)
      => /\ history[i].error # NoError
         /\ registry[history[i].channel][NameOf(history[i])] = NoInstance
         /\ ~history[i].vendorCall

\* ------------------------------------------------------------- log rows
\* C17: a row has an error message exactly when its status is failed:
\* pending and sent rows have none, also a row a retry has taken from
\* failed back to pending, and every failed row has one.
ErrorMessageIffFailed ==
  \A i \in 1..Len(emailLogs) :
    emailLogs[i].errorMessage # NoError <=> emailLogs[i].status = "failed"

\* C17 witness: a sweep has taken a failed row back to pending, without a
\* message, while another row is failed with the vendor's message
ErrorMessageIffFailedWitness ==
  \E s \in Sweeps :
    /\ retry[s].pc = "inflight"
    /\ emailLogs[retry[s].sel[retry[s].k]].status = "pending"
    /\ emailLogs[retry[s].sel[retry[s].k]].errorMessage = NoError
    /\ \E i \in 1..Len(emailLogs) :
         /\ emailLogs[i].status = "failed"
         /\ emailLogs[i].errorMessage = VendorError

\* C18 (as claimed): the provider stored on a row is the name of the adapter
\* its vendor call went through, for a send and for a retry of the row,
\* also when the caller left the provider out.
StoredProviderIsAdapterUsed ==
  /\ \A t \in Calls :
       t.pc \in {"inflight", "vendorOk", "vendorErr", "returned"}
         => emailLogs[t.id].provider = t.call.adapter
  /\ \A s \in Sweeps :
       retry[s].pc = "inflight"
         => emailLogs[retry[s].sel[retry[s].k]].provider
              = retry[s].call.adapter

\* ------------------------------------------------------ notification fan-out
\* the channels of s that sendNotification has a send for, in order
RECURSIVE Known(_)
Known(s) ==
  IF s = <<>> THEN <<>>
  ELSE IF Head(s) \in Channels THEN <<Head(s)>> \o Known(Tail(s))
  ELSE Known(Tail(s))

NotificationAttempted(type, user) ==
  \E j \in 1..Len(notified) :
    notified[j].type = type /\ notified[j].user = user

\* C20: when createComment or createReply has returned, a mention
\* notification has been attempted for every mention of the content and,
\* for a reply, a reply notification has been attempted towards the user of
\* the parent comment; the call raises only for an error of the store or a
\* missing parent comment, never for a notification.
CommentNotificationsAttempted ==
  /\ post.pc = "raised" => post.err \in {StoreError, ParentNotFound}
  /\ post.pc = "returned"
       => /\ \A i \in 1..Len(extractMentions(post.content)) :
               NotificationAttempted("mention", extractMentions(post.content)[i])
          /\ post.kind = "reply" => NotificationAttempted("reply", post.parent.user)

\* ------------------------------------------------- fan-out and the log
\* the email and SMS calls a fan-out has made
LoggedChannelCalls ==
  {i \in 1..Len(notify.calls) : notify.calls[i].channel \in {"email", "sms"}}

\* C21: every email or SMS call of a notification fan-out goes through the
\* channel's dispatch service, and there is a log row of its own for each
\* such call.
FanOutCallsAreLogged ==
  /\ \A i \in LoggedChannelCalls :
       notify.calls[i].through \in DispatchServices
  /\ Cardinality(Rows(emailLogs)) >= Cardinality(LoggedChannelCalls)

\* ------------------------------------------------- store failures
\* C22: a failure of a log-store write during a bulk send fails the bulk
\* send as a whole: no batch records it as the result of an item, and a
\* bulk send that has returned has seen no store failure.  A bulk send
\* fails as a whole for no other error.
StoreFailureFailsWholeOperation ==
  /\ \A b \in 1..Len(batches) :
       \A j \in 1..Len(batches[b].results) :
         batches[b].results[j].error # StoreError
  /\ bulk.pc = "returned" => storeFaults = 0
  /\ bulk.pc = "raised" => storeFaults > 0

\* ------------------------------------------------- tenant isolation
\* C23: a request of a user of one tenant returns, re-sends or deletes
\* only rows of that tenant.
TenantIsolation ==
  \A i \in request.rows : emailLogs[i].tenantId = request.tenantId

\* ------------------------------------------------- single push send
\* the vendor calls made for the notification record of this id
CallsFor(id) ==
  {c \in 1..Len(pushCalls) : pushCalls[c].notificationId = id}

\* C24: when the vendor call of a single push send has failed, the send is
\* rejected with the vendor's error, the record created for it is in the
\* table as it was created (isRead false), and the vendor has been called
\* for it once only.  No record of the table is ever written to again or
\* sent a second time.
PushRecordKeptOnVendorFailure ==
  /\ pushOne.vendor = "failed"
       => /\ pushOne.pc = "raised" /\ pushOne.err = VendorError
          /\ pushOne.id \in 1..Len(pushNotifications)
          /\ pushNotifications[pushOne.id] =
               [tenantId |-> pushOne.tenantId, userId |-> pushOne.userId,
                isRead |-> FALSE]
          /\ Cardinality(CallsFor(pushOne.id)) = 1
  /\ \A i \in 1..Len(pushNotifications) :
       /\ ~pushNotifications[i].isRead
       /\ Cardinality(CallsFor(i)) <= 1

\* C24 witness: the second of two sends has failed at the vendor; the
\* records of both are in the table and the vendor was called once for each
PushRecordKeptOnVendorFailureWitness ==
  /\ pushSends = 2
  /\ pushOne.vendor = "failed" /\ pushOne.pc = "raised"
  /\ pushOne.id = 2
  /\ Len(pushNotifications) = 2
  /\ Len(pushCalls) = 2

\* ------------------------------------------------- concurrent retry
\* sweep s has the vendor call for row id outstanding
Resending(s, id) ==
  /\ retry[s].pc = "inflight"
  /\ retry[s].sel[retry[s].k] = id

\* C25 (as claimed): single ownership.  No row is being sent again by two
\* sweeps at once, and the row a single send is dispatching is in no sweep's
\* hands.
SingleOwnership ==
  \A id \in 1..Len(emailLogs) :
    /\ ~(Resending("A", id) /\ Resending("B", id))
    /\ \A s \in Sweeps :
         ~(Resending(s, id) /\ one.pc = "inflight" /\ one.id = id)

\* ------------------------------------------------- pending rows settle
\* the rows a sweep has handled when it ends
Handles(r) == {r.sel[k] : k \in 1..Len(r.sel)}

\* C26 (as claimed), at the return: no row that a send or a sweep handled
\* is pending at the step in which that send or sweep returns to its
\* caller.
NoPendingOnReturn ==
  [][/\ (~Finished(one) /\ Finished(one') /\ one'.id # NoId)
          => emailLogs'[one'.id].status # "pending"
     /\ \A s \in Sweeps :
          (~Finished(retry[s]) /\ Finished(retry'[s]))
            => \A i \in Handles(retry'[s]) :
                 emailLogs'[i].status # "pending"]_vars

\* sweep r has reset row i to pending and not yet written its outcome
Holds(r, i) ==
  /\ r.pc \in {"inflight", "vendorOk", "vendorErr"}
  /\ r.sel[r.k] = i

IsPending(i) ==
  IF i <= Len(emailLogs) THEN emailLogs[i].status = "pending" ELSE FALSE

IsSettled(i) ==
  IF i <= Len(emailLogs)
  THEN emailLogs[i].status \in {"sent", "failed"} ELSE FALSE

\* C26 (amended): a row that is pending is sent or failed later on; and at
\* the step in which a send or a sweep returns to its caller, a row it
\* handled is pending only in the hands of another sweep, which has reset
\* it since.
PendingRowsSettle ==
  /\ \A i \in 1..MaxSends : IsPending(i) ~> IsSettled(i)
  /\ [][/\ (~Finished(one) /\ Finished(one') /\ one'.id # NoId)
             => \/ emailLogs'[one'.id].status # "pending"
                \/ \E s \in Sweeps : Holds(retry'[s], one'.id)
        /\ \A s \in Sweeps :
             (~Finished(retry[s]) /\ Finished(retry'[s]))
               => \A i \in Handles(retry'[s]) :
                    \/ emailLogs'[i].status # "pending"
                    \/ \E s2 \in Sweeps \ {s} : Holds(retry'[s2], i)]_vars

\* C26 witness: sweep A has returned after two rows, and the first of them
\* is pending again in the hands of sweep B
PendingRowsSettleWitness ==
  /\ retry["A"].pc = "returned"
  /\ retry["A"].sel = <<1, 2>>
  /\ emailLogs[2].status \in {"sent", "failed"}
  /\ emailLogs[1].status = "pending"
  /\ Holds(retry["B"], 1)

\* ------------------------------------------------- failed means not sent
\* the catch block of a sendEmail call runs for an error that is not the
\* adapter's: the adapter call had returned, and the write of 'sent' threw
AcceptedByVendor(t) == t.pc = "vendorErr" /\ t.err # VendorError

\* C27 (as claimed): a send whose adapter call returned never writes its
\* row to failed.
FailedOnlyOnVendorError ==
  [][(AcceptedByVendor(one) /\ one' # one)
       => emailLogs'[one.id].status # "failed"]_vars

\* ------------------------------------------ each push target's outcome
\* the userIds a PushNotification record was created for
Recorded(p) == {p.notifications[j].userId : j \in 1..Len(p.notifications)}

\* C28 (as claimed): the vendor is called only for the targets whose record
\* was created; a result entry has success = true only for a target with a
\* record that the vendor reported success for; and successful + failed =
\* total = the number of userIds.
PushTargetOutcomes ==
  /\ push.pc \in {"inflight", "returned", "raised"}
       => push.tokens \subseteq Recorded(push)
  /\ push.pc = "returned"
       => /\ \A j \in 1..Len(push.results) :
               push.results[j].success
                 => /\ push.results[j].userId \in Recorded(push)
                    /\ push.results[j].userId \in push.delivered
          /\ push.summary.total = push.n
          /\ push.summary.successful + push.summary.failed = push.n

\* --------------------------------------------- the fan-out's summary
\* C29 (as claimed): a sendNotification call returns one result entry per
\* requested channel, total = successful + failed = the number of entries,
\* and success is true iff some channel succeeded.
NotificationSummaryAddsUp ==
  notify.pc = "returned"
    => /\ Len(notify.results) = Len(notify.channels)
       /\ \A k \in 1..Len(notify.results) :
            k <= Len(notify.channels)
              => notify.results[k].channel = notify.channels[k]
       /\ notify.summary.total
            = notify.summary.successful + notify.summary.failed
       /\ notify.summary.total = Len(notify.results)
       /\ notify.success
            <=> \E k \in 1..Len(notify.results) : notify.results[k].success

\* ------------------------------------------------------- rate limiting
\* the requests of client c passed on in the windowMs before time t
PassedWithin(c, t) ==
  {j \in 1..Len(passedOn[c]) : t - passedOn[c][j] < windowMs}

\* in the window of windowMs that starts with a passed request of c, the
\* requests of c passed on
PassedFrom(c, i) ==
  {j \in 1..Len(passedOn[c]) :
     /\ passedOn[c][i] <= passedOn[c][j]
     /\ passedOn[c][j] < passedOn[c][i] + windowMs}

\* a request has just been handled by authRateLimit
RateAnswered == answer'.n = answer.n + 1

\* C30: per client address at most maxAttempts requests are passed on in
\* any window of windowMs; a request that finds maxAttempts passed ones of
\* its own address in the window before it is answered 429, is not passed
\* on and is not recorded; no request is answered 429 otherwise; and a
\* request changes nothing that is stored for another address.
RateLimitPerClient ==
  /\ [](\A c \in Clients : \A i \in 1..Len(passedOn[c]) :
          Cardinality(PassedFrom(c, i)) <= maxAttempts)
  /\ [][RateAnswered =>
         LET c == answer'.ip
         IN /\ answer'.status = 429
                 <=> Cardinality(PassedWithin(c, nowMs)) >= maxAttempts
            /\ answer'.status = 429
                 => /\ ~answer'.next
                    /\ authAttempts' = authAttempts
                    /\ passedOn' = passedOn
            /\ answer'.status # 429
                 => /\ answer'.next
                    /\ passedOn'[c] = Append(passedOn[c], nowMs)
            /\ \A d \in Clients \ {c} :
                 /\ authAttempts'[d] = authAttempts[d]
                 /\ passedOn'[d] = passedOn[d]]_vars

\* a client is answered 429 after maxAttempts passed requests, and the
\* other client has been passed on
RateLimitPerClientWitness ==
  /\ answer.status = 429
  /\ Len(passedOn[answer.ip]) >= maxAttempts
  /\ \E d \in Clients \ {answer.ip} : Len(passedOn[d]) > 0

====
